---- MODULE Spec2Model ----
(***************************************************************************)
(* A model of the rope renderer (src/rope-blender.py) and of the overlay   *)
(* script (src/vis.py).                                                    *)
(*                                                                         *)
(* Three parts of the program are modelled, with four specifications over  *)
(* the same variables:                                                     *)
(*   SpecRender  RopeRenderer.render_single_scene (projection, occlusion   *)
(*               pruning, recording) and the JSON dump that ends           *)
(*               RopeRenderer.run, for the renderer __main__ constructs;   *)
(*   SpecVis     the same for any construction of the renderer and any     *)
(*               image of a run, followed by vis.py (__main__, show_knots);*)
(*   SpecScene   RopeRenderer.clear and the scene-building methods, over   *)
(*               the host's objects and mesh data blocks;                  *)
(*   SpecNodes   RopeRenderer.make_simple_loop and randomize_nodes, over   *)
(*               the Bezier control points.                                *)
(*                                                                         *)
(* Units: a camera-view coordinate x (resp. y) is held as the integer      *)
(* x * 2 * 640 (resp. y * 2 * 480), i.e. in half pixels; a depth z and     *)
(* M_depth are held in tenths; Bezier coordinates and offsets are held in  *)
(* thousandths.  Python lists and dicts keyed 0..n-1 are functions over    *)
(* 0..n-1.                                                                 *)
(***************************************************************************)
EXTENDS Integers, Sequences, FiniteSets, TLC

VARIABLES
    \* ---- render_single_scene / run / vis.py
    coords,       \* camera-view coordinate of every sampled vertex (line 205, 219)
    pixels,       \* the dict pixels: i -> [p, valid, camera_coord]
    pc,           \* position in run / render_single_scene
    j,            \* the outer pruning loop's index (line 238)
    match_idxs,   \* result of neigh.kneighbors for point j (line 241)
    m,            \* position of the inner loop in match_idxs (line 242)
    knots_info,   \* self.knots_info
    i,            \* self.i
    num_images,   \* run's argument
    save_rgb,     \* self.save_rgb
    save_depth,   \* self.save_depth
    dirs,         \* directories that exist
    files,        \* files that exist: path -> content
    vis,          \* outcome of the last call of vis.py's show_knots / __main__
    \* ---- clear and the scene-building methods
    objects,      \* objects of the scene: id -> [kind, data]
    meshes,       \* bpy.data.meshes: ids of the mesh data blocks
    active,       \* bpy.context.active_object (an id, or None)
    rope_asymm,   \* self.rope_asymm (an id, or None)
    next_id,      \* ids handed out so far
    last_op,      \* the scene method called last
    scene_err,    \* exception it raised, or "none"
    \* ---- make_simple_loop / randomize_nodes
    bezier_points,\* self.bezier_points: k -> [x, y, z]
    rn            \* the frame of randomize_nodes

renderVars == <<coords, pixels, pc, j, match_idxs, m, knots_info, i, num_images,
                save_rgb, save_depth, dirs, files, vis>>
sceneVars == <<objects, meshes, active, rope_asymm, next_id, last_op, scene_err>>
nodeVars == <<bezier_points, rn>>
vars == <<renderVars, sceneVars, nodeVars>>

None == "None"
\* None where an object or data block id is expected (ids are naturals).
NoId == 0 - 1

Range(n) == 0 .. (n - 1)
Size(f) == Cardinality(DOMAIN f)

\* ------------------------------------------------------------------------
\* Bounds of the model
\* ------------------------------------------------------------------------
MaxVerts == 4
MaxImages == 2
MaxIds == 18
NumPoints == 7
MaxNum == 2

\* ------------------------------------------------------------------------
\* Program constants
\* ------------------------------------------------------------------------
resolution_x == 640
resolution_y == 480
n_neighbors == 4
M_pix == 10
M_depth == 2
rope_radius == 40
offset_min == 150
offset_max == 350

\* ------------------------------------------------------------------------
\* render_single_scene: projection to pixel space
\* ------------------------------------------------------------------------

\* Python's round() of the fraction n/d (n >= 0, d > 0): to the nearest
\* integer, a tie to the even one.
PyRound(n, d) ==
    LET q == n \div d
        r == n % d
    IN  IF 2 * r < d THEN q
        ELSE IF 2 * r > d THEN q + 1
        ELSE IF q % 2 = 0 THEN q ELSE q + 1

\* p = (round(camera_coord.x * render_size[0]),
\*      round(render_size[1] - camera_coord.y * render_size[1]))
\* with camera_coord.x = c.x / (2 * 640) and camera_coord.y = c.y / (2 * 480).
Projection(c) ==
    << PyRound(c.x * resolution_x, 2 * resolution_x),
       PyRound(2 * resolution_y * resolution_y - c.y * resolution_y, 2 * resolution_y) >>

\* The dict pixels after the projection loop: every vertex valid.
ProjectAll(cs) ==
    [k \in DOMAIN cs |-> [p |-> Projection(cs[k]), valid |-> TRUE, camera_coord |-> cs[k]]]

\* pixels_list = [v[0] for v in pixels.values()]
PixelsList(px) == [k \in DOMAIN px |-> px[k].p]

\* Squared Euclidean distance of two pixel coordinates.
Dist2(a, b) == (a[1] - b[1]) * (a[1] - b[1]) + (a[2] - b[2]) * (a[2] - b[2])

\* neigh.kneighbors([q], k, return_distance=False).squeeze().tolist(): the
\* indices of k fitted points nearest to q, by increasing distance.  The
\* radius given to the constructor plays no part in kneighbors.  The order
\* among points at equal distance (the query point itself included) is the
\* library's: every order is an outcome.
KNeighbors(pts, q, k) ==
    { s \in [Range(k) -> DOMAIN pts] :
        /\ \A a, b \in Range(k) : a # b => s[a] # s[b]
        /\ \A a, b \in Range(k) : a < b => Dist2(pts[s[a]], q) <= Dist2(pts[s[b]], q)
        /\ \A o \in DOMAIN pts :
              (\A a \in Range(k) : s[a] # o) =>
                  \A a \in Range(k) : Dist2(pts[s[a]], q) <= Dist2(pts[o], q) }

\* One pass of the inner loop's body (lines 244-251): point jj, whose
\* camera coordinate was read at line 239, against the neighbour match_idx.
PruneCompare(px, jj, match_idx) ==
    LET c1 == px[jj].camera_coord
        c2 == px[match_idx].camera_coord
    IN  IF px[match_idx].valid
        THEN IF c1.z - c2.z > M_depth
             THEN [px EXCEPT ![match_idx].valid = FALSE]
             ELSE IF c1.z - c2.z < -M_depth
                  THEN [px EXCEPT ![jj].valid = FALSE]
                  ELSE px
        ELSE px

\* A variant that records the unoccluded points only.
FinalPixsValidOnly(px) ==
    LET keep == {k \in DOMAIN px : px[k].valid}
    IN  [n \in Range(Cardinality(keep)) |->
            LET k == CHOOSE k \in keep : Cardinality({l \in keep : l < k}) = n
            IN  <<px[k].p, px[k].valid>>]

\* final_pixs = [[v[0], v[1]] for v in pixels.values()]
FinalPixs(px) == [k \in DOMAIN px |-> <<px[k].p, px[k].valid>>]

\* "{0:06d}".format(n), for the indices of the model (n < 10).
Format06d(n) == "00000" \o ToString(n)
ColorPath(n) == "images/" \o Format06d(n) \o "_rgb.png"
DepthPath(n) == "depth_images/" \o Format06d(n) \o "_depth.png"
KnotsDumpPath == "depth_images/knots_info.json"
KnotsLoadPath == "images/knots_info.json"

\* json.dump of self.knots_info followed by json.load: the int keys become
\* strings, the pixel tuple becomes a two-element array and the flag a JSON
\* boolean; a record is the array [[u, v], valid].
JsonRecord(rec) == << [t |-> "array", u |-> rec[1][1], v |-> rec[1][2]],
                      [t |-> "bool", b |-> rec[2]] >>
JsonKnots(info) ==
    [key \in {ToString(n) : n \in DOMAIN info} |->
        LET n == CHOOSE n \in DOMAIN info : ToString(n) = key
        IN  [k \in DOMAIN info[n] |-> JsonRecord(info[n][k])]]

\* ------------------------------------------------------------------------
\* Inputs: the scenes a render is given
\* ------------------------------------------------------------------------

\* Camera-view (x, y) of a vertex, in half pixels: these project to the
\* pixels (0, 0), (6, 8) and (30, 40); the first two are 10 apart.
CamXY == { <<1, 959>>, <<12, 944>>, <<60, 880>> }
\* Camera-view z, the distance in front of the camera, in tenths.
CamZ == { 10, 13 }
CamCoords == { [x |-> xy[1], y |-> xy[2], z |-> z] : xy \in CamXY, z \in CamZ }
\* The smaller set of vertices used where the files matter, not the depths.
VisCoords == { [x |-> xy[1], y |-> xy[2], z |-> z] : xy \in {<<1, 959>>, <<60, 880>>},
                                                      z \in {10, 13} }

\* A scene of vertices at one depth, which pruning leaves all valid: the
\* scene of the images rendered before the one the model follows.
PriorScene ==
    [k \in Range(n_neighbors) |->
        IF k % 2 = 0 THEN [x |-> 1, y |-> 959, z |-> 10]
                     ELSE [x |-> 60, y |-> 880, z |-> 10]]

\* ------------------------------------------------------------------------
\* run and render_single_scene
\* ------------------------------------------------------------------------

NoVis == [status |-> "none", idx |-> 0, markers |-> <<>>]

\* run(num_images) at the head of its last iteration, which is iteration i0:
\* the earlier iterations have rendered PriorScene and recorded it under the
\* indices below i0.  With i0 = 0 this is the renderer as constructed.
RunInit(i0, rgb, depth, depth_dir) ==
    /\ i = i0
    /\ num_images = i + 1
    /\ save_rgb = rgb
    /\ save_depth = depth
    /\ knots_info = [k \in Range(i) |-> FinalPixs(ProjectAll(PriorScene))]
    /\ dirs = {"images"} \cup (IF depth_dir \/ (depth /\ i > 0) THEN {"depth_images"} ELSE {})
    /\ files = [f \in ({ColorPath(k) : k \in (IF rgb THEN Range(i) ELSE {})}
                       \cup {DepthPath(k) : k \in (IF depth THEN Range(i) ELSE {})}) |-> "png"]
    /\ coords = <<>>
    /\ pixels = <<>>
    /\ pc = "build"
    /\ j = 0
    /\ match_idxs = <<>>
    /\ m = 0
    /\ vis = NoVis

\* run, lines 293-300, and render_single_scene, lines 200-205: the scene is
\* rebuilt and its sampled vertices are read; the vertices are the input.
\* kneighbors needs at least n_neighbors fitted points.
BuildScene(dom) ==
    /\ pc = "build"
    /\ \E n \in n_neighbors .. MaxVerts : coords' \in [Range(n) -> dom]
    /\ pc' = "project"
    /\ UNCHANGED <<pixels, j, match_idxs, m, knots_info, i, num_images,
                   save_rgb, save_depth, dirs, files, vis>>

\* Lines 208-235: the projection loop and the fit.
Project ==
    /\ pc = "project"
    /\ pixels' = ProjectAll(coords)
    /\ j' = 0
    /\ pc' = "outer"
    /\ UNCHANGED <<coords, match_idxs, m, knots_info, i, num_images,
                   save_rgb, save_depth, dirs, files, vis>>

\* Lines 238-242: the head of the outer loop, for point j.
PruneOuter ==
    /\ pc = "outer"
    /\ IF j \notin DOMAIN pixels
       THEN pc' = "store" /\ UNCHANGED <<j, match_idxs, m>>
       ELSE IF pixels[j].valid
            THEN /\ match_idxs' \in KNeighbors(PixelsList(pixels), pixels[j].p, n_neighbors)
                 /\ m' = 1
                 /\ pc' = "inner"
                 /\ UNCHANGED j
            ELSE j' = j + 1 /\ UNCHANGED <<pc, match_idxs, m>>
    /\ UNCHANGED <<coords, pixels, knots_info, i, num_images,
                   save_rgb, save_depth, dirs, files, vis>>

\* Lines 242-251: one pass of the inner loop, over match_idxs[1:].  The
\* locals match_idxs and m are dead once the inner loop ends.
Compare ==
    /\ pc = "inner"
    /\ pixels' = PruneCompare(pixels, j, match_idxs[m])
    /\ IF m + 1 < n_neighbors
       THEN m' = m + 1 /\ UNCHANGED <<pc, j>>
       ELSE m' = 0 /\ j' = j + 1 /\ pc' = "outer"
    /\ match_idxs' = (IF m + 1 < n_neighbors THEN match_idxs ELSE <<>>)
    /\ UNCHANGED <<coords, knots_info, i, num_images,
                   save_rgb, save_depth, dirs, files, vis>>

\* knots_info[i] = final_pixs
Record(info, idx, final_pixs) ==
    [k \in DOMAIN info \cup {idx} |-> IF k = idx THEN final_pixs ELSE info[k]]

\* Lines 252-285: the renders (which create their directory) and the record.
Store ==
    /\ pc = "store"
    /\ files' = [f \in DOMAIN files \cup (IF save_rgb THEN {ColorPath(i)} ELSE {})
                                    \cup (IF save_depth THEN {DepthPath(i)} ELSE {}) |->
                    IF f \in {ColorPath(i), DepthPath(i)} THEN "png" ELSE files[f]]
    /\ dirs' = dirs \cup (IF save_rgb THEN {"images"} ELSE {})
                    \cup (IF save_depth THEN {"depth_images"} ELSE {})
    /\ knots_info' = Record(knots_info, i, FinalPixs(pixels))
    /\ i' = i + 1
    /\ pc' = IF i + 1 < num_images THEN "build" ELSE "dump"
    /\ UNCHANGED <<coords, pixels, j, match_idxs, m, num_images, save_rgb, save_depth, vis>>

\* run, lines 302-303: open(..., 'w') needs the directory.
Dump ==
    /\ pc = "dump"
    /\ IF "depth_images" \in dirs
       THEN /\ files' = [f \in DOMAIN files \cup {KnotsDumpPath} |->
                            IF f = KnotsDumpPath THEN JsonKnots(knots_info) ELSE files[f]]
            /\ pc' = "dumped"
       ELSE /\ pc' = "FileNotFoundError"
            /\ UNCHANGED files
    /\ UNCHANGED <<coords, pixels, j, match_idxs, m, knots_info, i, num_images,
                   save_rgb, save_depth, dirs, vis>>

\* ------------------------------------------------------------------------
\* vis.py
\* ------------------------------------------------------------------------

\* show_knots, lines 13-17, from element e of record k on: every element of
\* a record is unpacked as (u, v), then drawn on img.  Unpacking a JSON
\* boolean raises TypeError; cv2.circle on the None that cv2.imread gives
\* for a missing file raises.
RECURSIVE DrawFrom(_, _, _, _, _)
DrawFrom(recs, k, e, img, markers) ==
    IF k \notin DOMAIN recs
    THEN [status |-> "ok", markers |-> markers]
    ELSE IF e > Len(recs[k])
         THEN DrawFrom(recs, k + 1, 1, img, markers)
         ELSE IF recs[k][e].t # "array"
              THEN [status |-> "TypeError", markers |-> markers]
              ELSE IF img = None
                   THEN [status |-> "cv2.error", markers |-> markers]
                   ELSE DrawFrom(recs, k, e + 1, img,
                                 Append(markers, <<recs[k][e].u, recs[k][e].v>>))

\* show_knots(idx, info), lines 9-21, on the files fs.
ShowKnotsOutcome(idx, info, fs) ==
    LET img == IF ColorPath(idx) \in DOMAIN fs THEN "img" ELSE None
    IN  IF ToString(idx) \notin DOMAIN info
        THEN [status |-> "KeyError", idx |-> idx, markers |-> <<>>]
        ELSE LET r == DrawFrom(info[ToString(idx)], 0, 1, img, <<>>)
             IN  [status |-> r.status, idx |-> idx, markers |-> r.markers]

\* The loop of lines 38-39: the first call that raises ends the script.
RECURSIVE ShowAll(_, _, _, _)
ShowAll(idx, num, info, fs) ==
    LET r == ShowKnotsOutcome(idx, info, fs)
    IN  IF idx >= num THEN [status |-> "ok", idx |-> idx, markers |-> <<>>]
        ELSE IF r.status # "ok" \/ idx + 1 >= num THEN r
        ELSE ShowAll(idx + 1, num, info, fs)

\* len(os.listdir('./images')) - 1, the default of --num.
DefaultNum(fs) ==
    Cardinality({f \in DOMAIN fs : \E k \in Range(MaxImages + 1) : f = ColorPath(k)}
                \cup (DOMAIN fs \cap {KnotsLoadPath})) - 1

\* The script, lines 24-39, run after run() has returned.
VisMain ==
    /\ pc = "dumped"
    /\ dirs' = dirs \cup {"annotated"}
    /\ vis' = IF KnotsLoadPath \notin DOMAIN files
              THEN [status |-> "FileNotFoundError", idx |-> 0, markers |-> <<>>]
              ELSE ShowAll(0, DefaultNum(files), files[KnotsLoadPath], files)
    /\ UNCHANGED <<coords, pixels, pc, j, match_idxs, m, knots_info, i, num_images,
                   save_rgb, save_depth, files>>

\* A call show_knots(idx, knots_info) on the data that run wrote.
ShowKnots ==
    /\ pc = "dumped"
    /\ \E idx \in Range(num_images) :
          vis' = ShowKnotsOutcome(idx, files[KnotsDumpPath], files)
    /\ UNCHANGED <<coords, pixels, pc, j, match_idxs, m, knots_info, i, num_images,
                   save_rgb, save_depth, dirs, files>>

\* ------------------------------------------------------------------------
\* The host's scene: clear and the scene-building methods
\* ------------------------------------------------------------------------
\* An object is [kind, data]; the data of a MESH object is a mesh data block
\* of bpy.data.meshes.  The host keeps a data block whose last user is
\* gone (users == 0) until it is removed or the file is reloaded.

MeshObject(id) == [kind |-> "MESH", data |-> id]
OtherObject(kind) == [kind |-> kind, data |-> NoId]

\* block.users
Users(objs, block) ==
    Cardinality({o \in DOMAIN objs : objs[o].kind = "MESH" /\ objs[o].data = block})

WithObject(objs, id, ob) == [o \in DOMAIN objs \cup {id} |-> IF o = id THEN ob ELSE objs[o]]
Without(objs, ids) == [o \in DOMAIN objs \ ids |-> objs[o]]

\* bpy.ops.object.select_all(action='SELECT'); bpy.ops.object.join(): the
\* other mesh objects are merged into the active one and deleted; their
\* mesh data blocks stay, without user.
JoinAll(objs, act) ==
    Without(objs, {o \in DOMAIN objs : o # act /\ objs[o].kind = "MESH"})

\* The startup scene of the host: a cube (active), a camera and a light.
SceneInit ==
    /\ objects = (0 :> MeshObject(3) @@ 1 :> OtherObject("CAMERA") @@ 2 :> OtherObject("LIGHT"))
    /\ meshes = {3}
    /\ active = 0
    /\ rope_asymm = NoId
    /\ next_id = 4
    /\ last_op = "none"
    /\ scene_err = "none"

\* Lines 59-61: the mesh blocks without user, as the loop finds them.
OrphanMeshes(objs, blocks) == {b \in blocks : Users(objs, b) = 0}

\* clear(), lines 59-73.  mode_set needs an active object.
Clear ==
    /\ scene_err = "none"
    /\ last_op' = "clear"
    /\ meshes' = meshes \ OrphanMeshes(objects, meshes)
    /\ IF active = NoId
       THEN scene_err' = "RuntimeError" /\ UNCHANGED <<objects, active>>
       ELSE objects' = <<>> /\ active' = NoId /\ UNCHANGED scene_err
    /\ UNCHANGED <<rope_asymm, next_id>>

\* add_camera(), lines 77-81: a camera, then a light.
AddCamera ==
    /\ scene_err = "none"
    /\ next_id + 2 <= MaxIds
    /\ last_op' = "add_camera"
    /\ objects' = WithObject(WithObject(objects, next_id, OtherObject("CAMERA")),
                             next_id + 1, OtherObject("LIGHT"))
    /\ active' = next_id + 1
    /\ next_id' = next_id + 2
    /\ UNCHANGED <<meshes, rope_asymm, scene_err>>

\* make_rigid_rope(), lines 86-103: a circle, three duplicates of it (each
\* with its own copy of the mesh), all mesh objects joined into the last.
MakeRigidRope ==
    /\ scene_err = "none"
    /\ next_id + 8 <= MaxIds
    /\ last_op' = "make_rigid_rope"
    /\ LET circles == [c \in {next_id + 2 * n : n \in 0 .. 3} |-> MeshObject(c + 1)]
           all == [o \in DOMAIN objects \cup DOMAIN circles |->
                      IF o \in DOMAIN circles THEN circles[o] ELSE objects[o]]
       IN  /\ objects' = JoinAll(all, next_id + 6)
           /\ meshes' = meshes \cup {circles[c].data : c \in DOMAIN circles}
    /\ active' = next_id + 6
    /\ next_id' = next_id + 8
    /\ UNCHANGED <<rope_asymm, scene_err>>

\* add_rope_asymmetry(), lines 107-113: a cone, all mesh objects joined
\* into it.
AddRopeAsymmetry ==
    /\ scene_err = "none"
    /\ next_id + 2 <= MaxIds
    /\ last_op' = "add_rope_asymmetry"
    /\ objects' = JoinAll(WithObject(objects, next_id, MeshObject(next_id + 1)), next_id)
    /\ meshes' = meshes \cup {next_id + 1}
    /\ active' = next_id
    /\ rope_asymm' = next_id
    /\ next_id' = next_id + 2
    /\ UNCHANGED scene_err

\* make_bezier(), lines 117-139: a curve; then self.rope_asymm is selected
\* and made active, which needs it to be an object of the scene.
MakeBezier ==
    /\ scene_err = "none"
    /\ next_id + 1 <= MaxIds
    /\ last_op' = "make_bezier"
    /\ objects' = WithObject(objects, next_id, OtherObject("CURVE"))
    /\ next_id' = next_id + 1
    /\ IF rope_asymm \in DOMAIN objects
       THEN active' = rope_asymm /\ UNCHANGED scene_err
       ELSE active' = next_id /\
            scene_err' = (IF rope_asymm = NoId THEN "AttributeError" ELSE "ReferenceError")
    /\ UNCHANGED <<meshes, rope_asymm>>

\* ------------------------------------------------------------------------
\* The Bezier control points: make_simple_loop and randomize_nodes
\* ------------------------------------------------------------------------

\* random.uniform(a, b): the two ends stand for the interval.
Uniform(a, b) == {a, b}
\* The sign flips of lines 174-177 and 180-181.
Signed(S) == S \cup {0 - v : v \in S}

Min(a, b) == IF a < b THEN a ELSE b

\* make_bezier leaves the control points on a line: y resized to 0, z = 0.
NodesInit ==
    /\ bezier_points = [k \in Range(NumPoints) |-> [x |-> 400 * k, y |-> 0, z |-> 0]]
    /\ rn = [pc |-> "bezier", loop_indices |-> {}, num |-> 0, nonplanar |-> FALSE,
             offlimit_indices |-> {}, knots_idxs |-> <<>>, k |-> 0]

\* Lines 145-152, for the chosen p0 and y_shift.
SimpleLoop(b, p0, y_shift) ==
    LET y1 == b[p0 + 1].y + y_shift
        y2 == b[p0 + 2].y + y_shift
        z2 == b[p0 + 2].z + rope_radius
        x1 == b[p0 + 2].x
        x2 == b[p0 + 1].x
        x4 == (x1 + x2) \div 2
        z4 == b[p0 + 4].z - rope_radius
    IN  [b EXCEPT ![p0 + 1] = [x |-> x1, y |-> y1, z |-> b[p0 + 1].z],
                  ![p0 + 2] = [x |-> x2, y |-> y2, z |-> z2],
                  ![p0 + 4] = [x |-> x4, y |-> y1, z |-> z4],
                  ![p0 + 5] = [x |-> x1, y |-> (b[p0].y + y1) \div 2, z |-> (0 - 2) * z4]]

\* make_simple_loop(0.2, 0.3), as run calls it (line 298).
MakeSimpleLoop ==
    /\ rn.pc = "bezier"
    /\ \E p0 \in Range(Size(bezier_points) - 5), y_shift \in Uniform(200, 300) :
          /\ bezier_points' = SimpleLoop(bezier_points, p0, y_shift)
          /\ rn' = [rn EXCEPT !.pc = "looped", !.loop_indices = p0 .. (p0 + 4)]

\* list(set(range(len(self.bezier_points))) ^ offlimit_indices)
Candidates(n, offlimit) == (Range(n) \cup offlimit) \ (Range(n) \cap offlimit)

\* np.random.choice(a, size, replace=False): size distinct elements of a, in
\* any order.
Choices(a, size) ==
    {s \in [1 .. size -> a] : \A x, y \in 1 .. size : x # y => s[x] # s[y]}

\* The off-limit sets randomize_nodes is called with: the one run passes
\* (the loop's indices) and others a caller may pass.
OfflimitInputs(loop_indices, n) ==
    { loop_indices, {}, {n}, loop_indices \cup {n + 1}, 1 .. (n - 1) }

\* randomize_nodes, line 169: the choice of the knots; np.random.choice
\* raises ValueError when asked for more elements than there are.
RandomizeNodesCall ==
    /\ rn.pc = "looped"
    /\ \E num \in 1 .. MaxNum, nonplanar \in BOOLEAN,
          offlimit \in OfflimitInputs(rn.loop_indices, Size(bezier_points)) :
          LET a == Candidates(Size(bezier_points), offlimit)
              size == Min(num, Size(bezier_points))
              frame == [rn EXCEPT !.num = num, !.nonplanar = nonplanar,
                                  !.offlimit_indices = offlimit]
          IN  IF size > Cardinality(a)
              THEN rn' = [frame EXCEPT !.pc = "ValueError"]
              ELSE \E sel \in Choices(a, size) :
                      rn' = [frame EXCEPT !.pc = "loop", !.knots_idxs = sel, !.k = 1]
    /\ UNCHANGED bezier_points

\* Lines 171-184 for one knot; the offsets are drawn after the knot is
\* looked up, which raises IndexError for an index that is no control point.
Displace(b, idx, offset_x, offset_y, offset_z) ==
    [b EXCEPT ![idx] = [x |-> @.x + offset_x, y |-> @.y + offset_y, z |-> @.z + offset_z]]

RandomizeNodesStep ==
    /\ rn.pc = "loop"
    /\ LET idx == rn.knots_idxs[rn.k]
           after == IF rn.k = Len(rn.knots_idxs) THEN [rn EXCEPT !.pc = "done"]
                                                 ELSE [rn EXCEPT !.k = @ + 1]
       IN  IF idx \notin DOMAIN bezier_points
           THEN rn' = [rn EXCEPT !.pc = "IndexError"] /\ UNCHANGED bezier_points
           ELSE \E offset_y \in Signed(Uniform(offset_min, offset_max)),
                   offset_x \in Signed(Uniform(offset_min \div 2, offset_max \div 2)),
                   offset_z \in (IF rn.nonplanar THEN Signed(Uniform(offset_min, offset_max))
                                                 ELSE {0}) :
                   /\ bezier_points' = Displace(bezier_points, idx, offset_x, offset_y, offset_z)
                   /\ rn' = after

\* ------------------------------------------------------------------------
\* Specifications
\* ------------------------------------------------------------------------

SceneIdle ==
    /\ objects = <<>>
    /\ meshes = {}
    /\ active = NoId
    /\ rope_asymm = NoId
    /\ next_id = 0
    /\ last_op = "none"
    /\ scene_err = "none"

NodesIdle ==
    /\ bezier_points = <<>>
    /\ rn = [pc |-> "idle", loop_indices |-> {}, num |-> 0, nonplanar |-> FALSE,
             offlimit_indices |-> {}, knots_idxs |-> <<>>, k |-> 0]

\* The renderer as __main__ constructs and runs it (lines 306-307):
\* save_depth, not save_rgb, run(1).
InitRender == RunInit(0, FALSE, TRUE, FALSE) /\ SceneIdle /\ NodesIdle
NextRender ==
    \/ (BuildScene(CamCoords) /\ UNCHANGED <<sceneVars, nodeVars>>)
    \/ (Project /\ UNCHANGED <<sceneVars, nodeVars>>)
    \/ (PruneOuter /\ UNCHANGED <<sceneVars, nodeVars>>)
    \/ (Compare /\ UNCHANGED <<sceneVars, nodeVars>>)
    \/ (Store /\ UNCHANGED <<sceneVars, nodeVars>>)
    \/ (Dump /\ UNCHANGED <<sceneVars, nodeVars>>)
SpecRender == InitRender /\ [][NextRender]_vars

\* Any construction of the renderer, then run, then the overlay script.
InitVis ==
    /\ \E i0 \in Range(MaxImages), rgb, depth, depth_dir \in BOOLEAN :
          RunInit(i0, rgb, depth, depth_dir)
    /\ SceneIdle /\ NodesIdle
NextVis ==
    \/ (BuildScene(VisCoords) /\ UNCHANGED <<sceneVars, nodeVars>>)
    \/ (Project /\ UNCHANGED <<sceneVars, nodeVars>>)
    \/ (PruneOuter /\ UNCHANGED <<sceneVars, nodeVars>>)
    \/ (Compare /\ UNCHANGED <<sceneVars, nodeVars>>)
    \/ (Store /\ UNCHANGED <<sceneVars, nodeVars>>)
    \/ (Dump /\ UNCHANGED <<sceneVars, nodeVars>>)
    \/ (VisMain /\ UNCHANGED <<sceneVars, nodeVars>>)
    \/ (ShowKnots /\ UNCHANGED <<sceneVars, nodeVars>>)
SpecVis == InitVis /\ [][NextVis]_vars

\* ------------------------------------------------------------------------
\* Properties of the occlusion pruning
\* ------------------------------------------------------------------------

\* The points whose flag the step at hand turns from valid to invalid.
Marked == {k \in DOMAIN pixels : pixels[k].valid /\ ~pixels'[k].valid}

\* The neighbours point j is depth-compared with: match_idxs[1:].
ComparedWith == {match_idxs[a] : a \in 1 .. (n_neighbors - 1)}

\* C1: a point is marked invalid only when the point it is compared with is
\* closer to the camera (smaller z) by more than M_depth; the nearer of two
\* compared points is never the one marked.
C1_MarkedOnlyBehindNearer ==
    [][pc = "inner" =>
        \A k \in Marked :
            \E o \in {j, match_idxs[m]} \ {k} :
                pixels[o].camera_coord.z + M_depth < pixels[k].camera_coord.z]_vars

\* What the code does instead: the point marked is the one closer to the
\* camera by more than M_depth.
C1_CodeMarksNearer ==
    [][pc = "inner" =>
        \A k \in Marked :
            \E o \in {j, match_idxs[m]} \ {k} :
                pixels[k].camera_coord.z + M_depth < pixels[o].camera_coord.z]_vars

\* C2: a point is marked invalid only by a comparison with a point at most
\* M_pix away from it in pixel space.
C2_MarkedOnlyByNearbyPoint ==
    [][pc = "inner" =>
        (Marked # {} =>
            Dist2(pixels[j].p, pixels[match_idxs[m]].p) <= M_pix * M_pix)]_vars

\* C6: the neighbours point j is compared with are the nearest points other
\* than j: j is not among them and no other point nearer than one of them
\* is left out.
C6_ComparedAreNearestOthers ==
    pc = "inner" =>
        /\ j \notin ComparedWith
        /\ \A c \in ComparedWith :
              \A o \in DOMAIN pixels \ (ComparedWith \cup {j}) :
                  Dist2(pixels[c].p, pixels[j].p) <= Dist2(pixels[o].p, pixels[j].p)

\* The records a finished render has stored (part of C3).
C3_Stored ==
    pc \in {"dump", "dumped", "FileNotFoundError"} =>
        /\ DOMAIN knots_info = Range(i)
        /\ i = num_images
        /\ DOMAIN knots_info[i - 1] = DOMAIN coords
        /\ \A k \in DOMAIN coords :
              /\ Len(knots_info[i - 1][k]) = 2
              /\ knots_info[i - 1][k][1] = Projection(coords[k])
              /\ knots_info[i - 1][k][2] = pixels[k].valid
        /\ \A n \in Range(i - 1) : knots_info[n] = FinalPixs(ProjectAll(PriorScene))
\* During pruning the records are those of the projection (part of C3).
C3_PruningKeeps ==
    pc \in {"outer", "inner", "store"} =>
        /\ DOMAIN pixels = DOMAIN coords
        /\ \A k \in DOMAIN coords :
              pixels[k].p = Projection(coords[k]) /\ pixels[k].camera_coord = coords[k]
\* A pruning step never sets a flag that was cleared (part of C3).
C3_FlagsOnlyCleared ==
    pc \in {"outer", "inner"} =>
        \A k \in DOMAIN pixels : pixels'[k].valid => pixels[k].valid
\* C3: a render stores, under the image index it started with, one record
\* [pixel, valid] per sampled vertex in vertex order, whose pixel is the
\* projection of that vertex; during pruning the records' pixels and number
\* stay as projected and a valid flag only ever goes from True to False.
C3_OneRecordPerVertex ==
    [](C3_Stored /\ C3_PruningKeeps) /\ [][C3_FlagsOnlyCleared]_vars

\* A render has stored its records and pruning has marked some point of it,
\* not all.
C3_Witness ==
    /\ pc = "dump"
    /\ \E k \in DOMAIN knots_info[i - 1] : ~knots_info[i - 1][k][2]
    /\ \E k \in DOMAIN knots_info[i - 1] : knots_info[i - 1][k][2]

\* C4: show_knots(idx, knots_info), given the data run wrote, ends without
\* failing having drawn one marker per record of image idx, at the record's
\* pixel; the script reads the file run wrote.
C4_OverlayDrawsEveryRecord ==
    vis.status # "none" =>
        /\ vis.status = "ok"
        /\ vis.idx \in DOMAIN knots_info
        /\ Len(vis.markers) = Size(knots_info[vis.idx])
        /\ \A k \in DOMAIN knots_info[vis.idx] :
              vis.markers[k + 1] = knots_info[vis.idx][k][1]

RenderIdle ==
    /\ coords = <<>> /\ pixels = <<>> /\ pc = "idle" /\ j = 0 /\ match_idxs = <<>>
    /\ m = 0 /\ knots_info = <<>> /\ i = 0 /\ num_images = 0
    /\ save_rgb = FALSE /\ save_depth = TRUE /\ dirs = {} /\ files = <<>> /\ vis = NoVis

\* The scene methods, called in any order.
InitScene == SceneInit /\ RenderIdle /\ NodesIdle
NextScene ==
    \/ (Clear /\ UNCHANGED <<renderVars, nodeVars>>)
    \/ (AddCamera /\ UNCHANGED <<renderVars, nodeVars>>)
    \/ (MakeRigidRope /\ UNCHANGED <<renderVars, nodeVars>>)
    \/ (AddRopeAsymmetry /\ UNCHANGED <<renderVars, nodeVars>>)
    \/ (MakeBezier /\ UNCHANGED <<renderVars, nodeVars>>)
SpecScene == InitScene /\ [][NextScene]_vars

\* C5: when clear() has returned, the scene holds no object and no mesh data
\* block.
C5_ClearLeavesNothing ==
    (last_op = "clear" /\ scene_err = "none") => (DOMAIN objects = {} /\ meshes = {})

\* What the code leaves: no object, and exactly the mesh blocks that had a
\* user when clear() was called, now without user.
C5_ClearLeavesObjectsOnly ==
    (last_op = "clear" /\ scene_err = "none") =>
        (DOMAIN objects = {} /\ \A b \in meshes : Users(objects, b) = 0)

\* make_bezier, then make_simple_loop, then one call of randomize_nodes.
InitNodes == NodesInit /\ RenderIdle /\ SceneIdle
NextNodes ==
    \/ (MakeSimpleLoop /\ UNCHANGED <<renderVars, sceneVars>>)
    \/ (RandomizeNodesCall /\ UNCHANGED <<renderVars, sceneVars>>)
    \/ (RandomizeNodesStep /\ UNCHANGED <<renderVars, sceneVars>>)
SpecNodes == InitNodes /\ [][NextNodes]_vars

Knots == {rn.knots_idxs[x] : x \in DOMAIN rn.knots_idxs}

\* The knots a call has picked (part of C7).
C7_Picked ==
    rn.pc \in {"loop", "done", "ValueError", "IndexError"} =>
        /\ rn.pc \in {"loop", "done"}
        /\ Len(rn.knots_idxs) = Min(rn.num, Size(bezier_points))
        /\ Cardinality(Knots) = Len(rn.knots_idxs)
        /\ Knots \subseteq DOMAIN bezier_points \ rn.offlimit_indices
\* What one pass of the loop changes (part of C7).
C7_StepFrame ==
    (rn.pc = "loop" /\ rn'.pc \in {"loop", "done"}) =>
        \A n \in DOMAIN bezier_points :
            /\ n # rn.knots_idxs[rn.k] => bezier_points'[n] = bezier_points[n]
            /\ n = rn.knots_idxs[rn.k] => bezier_points'[n] # bezier_points[n]
            /\ ~rn.nonplanar => bezier_points'[n].z = bezier_points[n].z
\* C7: a call of randomize_nodes, whatever offlimit_indices is, raises
\* nothing and picks min(num, number of control points) distinct knots, each
\* a control point that is not off limits; a step displaces the knot at hand
\* and no other control point, and no z coordinate unless nonplanar.
C7_RandomizeNodes == []C7_Picked /\ [][C7_StepFrame]_vars

\* The same for the calls whose off-limit indices are control points and
\* leave at least min(num, number of control points) of them.
C7_PickedWhenWithin ==
    (/\ rn.pc \in {"loop", "done", "ValueError", "IndexError"}
     /\ rn.offlimit_indices \subseteq DOMAIN bezier_points
     /\ Size(bezier_points) - Cardinality(rn.offlimit_indices)
            >= Min(rn.num, Size(bezier_points))) => C7_Picked

====
